---- MODULE Spec2Model ----
(***************************************************************************)
(* Resistance & Voltage Checker: the measurement session controller of    *)
(* src/Code/UI_2.py (Min/Max limits, simulated meter; variant "basic")    *)
(* and src/Code/UI_test.py (Set +/- Tol limits, serial instrument with    *)
(* simulated fallback; variant "instr").                                   *)
(*                                                                         *)
(* Values are small integers standing for the floats of the program.      *)
(* An optional reading is <<>> (Python None) or <<x>>.  Indices are        *)
(* 0-based as in the source; sequences are 1-based, hence the +1.          *)
(* Every event handler of the Tk main loop is one atomic action.           *)
(***************************************************************************)
EXTENDS Integers, Sequences, FiniteSets, TLC

\* ------------------------------------------------------------------ bounds
MaxPoints == 2
EvalMax == 3
MaxFields == 3
SimMax == 10

\* grids of representable readings (display units) and the values a user
\* types into the limit entries
RGrid == {2, 5}
VGrid == {2}
InstrumentOhms == {2, 5}
InstrumentVolts == {2}
RLimitInputs == {<<0, 4>>, <<0, 10>>, <<6, 4>>}
VLimitInputs == {<<0, 4>>, <<4, 0>>}
RSetTolInputs == {<<2000, 2000>>, <<5000, 5000>>, <<5000, -1000>>}
VSetTolInputs == {<<2, 2>>, <<2, -2>>}
PointCountInputs == 0..MaxPoints
ExportOutcomes == {"ok", "mkdir_fail", "write_fail"}

None == <<>>
Some(x) == <<x>>
Min(a, b) == IF a < b THEN a ELSE b
Abs(x) == IF x < 0 THEN -x ELSE x

VARIABLES
  variant,        \* which program runs: "basic" (UI_2.py) or "instr" (UI_test.py)
  num_points,     \* tk.IntVar bound to the Point Count spinbox (live)
  r_values, v_values, flags, current_idx,
  mode, auto_running, auto_job,
  timer,          \* TRUE iff the Tk scheduler holds a pending _tick_auto callback
  auto_export,
  r_min, r_max, v_min, v_max,      \* UI_2.py limit variables (live)
  r_set, r_tol, v_set, v_tol,      \* UI_test.py limit variables (live)
  ser,            \* "none" or "open"
  out,            \* what the last handler did (observation only)
  pure, trace,    \* observation: indices written since the session was fresh
  passed_minmax,  \* result of one Min/Max evaluation (evaluation specifications)
  passed_settol,  \* result of one Set +/- Tol evaluation (evaluation specifications)
  line            \* the fields of one response line (parsing specification)

sessionVars == <<r_values, v_values, flags, current_idx, auto_running, auto_job, timer>>
limitVars == <<r_min, r_max, v_min, v_max, r_set, r_tol, v_set, v_tol>>
evalVars == <<passed_minmax, passed_settol, line>>
vars == <<variant, num_points, sessionVars, mode, auto_export, limitVars, ser, out,
          pure, trace, evalVars>>

\* ------------------------------------------------------- limit evaluation
r_bounds_copy_paste == <<r_set - r_tol, r_set - r_tol>>

\* UI_test.py _r_bounds / _v_bounds
r_bounds == <<r_set - r_tol, r_set + r_tol>>
v_bounds == <<v_set - v_tol, v_set + v_tol>>

\* the limits in effect: read from the live Tk variables at every use
RLimits == IF variant = "basic" THEN <<r_min, r_max>> ELSE r_bounds
VLimits == IF variant = "basic" THEN <<v_min, v_max>> ELSE v_bounds

is_pass_basic_strict(r, v) ==
  LET ok_r == r # None /\ r_min <= r[1] /\ r[1] < r_max
      ok_v == v # None /\ v_min <= v[1] /\ v[1] <= v_max
  IN r # None /\ v # None /\ ok_r /\ ok_v

\* UI_2.py _refresh_rows: the value stored in flags[i]
is_pass_basic(r, v) ==
  LET ok_r == r # None /\ r_min <= r[1] /\ r[1] <= r_max
      ok_v == v # None /\ v_min <= v[1] /\ v[1] <= v_max
  IN r # None /\ v # None /\ ok_r /\ ok_v

\* UI_test.py _refresh_rows: the value stored in flags[i]
is_pass_instr(r, v) ==
  LET rmin == r_bounds[1]
      rmax == r_bounds[2]
      vmin == v_bounds[1]
      vmax == v_bounds[2]
      ok_r == r # None /\ rmin <= r[1] /\ r[1] <= rmax
      ok_v == v # None /\ vmin <= v[1] /\ v[1] <= vmax
  IN r # None /\ v # None /\ ok_r /\ ok_v

\* _refresh_rows: every flag recomputed against the limits of this moment
refresh_rows(rv, vv) ==
  [i \in 1..Len(rv) |-> IF variant = "basic" THEN is_pass_basic(rv[i], vv[i])
                        ELSE is_pass_instr(rv[i], vv[i])]

\* ------------------------------------------------------- simulated reader
\* random.uniform(c - 0.6 s, c + 0.6 s), scaled by 20 to stay in the integers
sim_pass_branch(x, lim) ==
  Abs(20 * x - 10 * (lim[1] + lim[2])) <= 6 * Abs(lim[2] - lim[1])

\* c + choice([-1, 1]) * uniform(0.7 s, 1.6 s)
sim_fail_branch(x, lim) ==
  /\ 7 * Abs(lim[2] - lim[1]) <= Abs(20 * x - 10 * (lim[1] + lim[2]))
  /\ Abs(20 * x - 10 * (lim[1] + lim[2])) <= 16 * Abs(lim[2] - lim[1])

\* the pairs the simulated reader can return on the grid: both axes are drawn
\* in the same branch of random.random() < 0.8
sim_readings(rl, vl, rgrid, vgrid) ==
  {p \in rgrid \X vgrid : sim_pass_branch(p[1], rl) /\ sim_pass_branch(p[2], vl)}
  \cup
  {p \in rgrid \X vgrid : sim_fail_branch(p[1], rl) /\ sim_fail_branch(p[2], vl)}

RGridOf == IF variant = "basic" THEN RGrid ELSE {1000 * x : x \in RGrid}

\* UI_2.py _read_meter: always simulated
read_meter_basic == {[src |-> "simulated", r |-> p[1], v |-> p[2]] :
                       p \in sim_readings(RLimits, VLimits, RGridOf, VGrid)}

\* instrument answers to FETC?: no line, an unparsable line, or <r_ohm>,<v>
Responses == {[kind |-> "timeout", r |-> 0, v |-> 0],
              [kind |-> "malformed", r |-> 0, v |-> 0]}
             \cup {[kind |-> "line", r |-> a, v |-> b] :
                     a \in InstrumentOhms, b \in InstrumentVolts}

\* _query_fetc_once followed by _parse_meter_line: does the exchange raise?
query_raises(conn, resp) == conn # "open" \/ resp.kind # "line"

ohm_to_milliohm(x) == x * 1000

\* UI_test.py _read_meter: the real reading, or on ANY exception the simulated one
read_meter_instr(conn, resp) ==
  IF query_raises(conn, resp)
    THEN {[src |-> "simulated", r |-> p[1], v |-> p[2]] :
            p \in sim_readings(RLimits, VLimits, RGridOf, VGrid)}
    ELSE {[src |-> "instrument", r |-> ohm_to_milliohm(resp.r), v |-> resp.v]}

\* ------------------------------------------------------------ session
\* The mutable session of the App object, threaded through the calls of one
\* handler; sig/wrote/src/exported/raised record what the handler did.
Cur == [rv |-> r_values, vv |-> v_values, fl |-> flags, idx |-> current_idx,
        run |-> auto_running, job |-> auto_job, timer |-> timer,
        sig |-> {}, wrote |-> -1, src |-> "none", exported |-> "no",
        raised |-> FALSE]

\* an uncaught exception leaves the handler; Tk reports it and the loop goes on
Raise(s) == [s EXCEPT !.raised = TRUE]
Sig(s, m) == [s EXCEPT !.sig = @ \cup {m}]

\* the widgets of the Main tab exist (a failed _build_main leaves them destroyed)
ui_alive(s) == Len(s.rv) > 0

update_mode_buttons_rewinds(s) ==
  IF ~ui_alive(s) THEN Raise(s)
  ELSE IF mode = "manual" THEN [s EXCEPT !.idx = 0] ELSE s

\* _update_mode_buttons: configures btn_measure / btn_auto_start / btn_auto_stop
update_mode_buttons(s) == IF ui_alive(s) THEN s ELSE Raise(s)

cancel_job_forgets_timer(s) == [s EXCEPT !.job = "none"]

\* if self._auto_job is not None: self.after_cancel(self._auto_job); self._auto_job = None
\* ("cancelled" records that a callback still pending was taken off the scheduler)
cancel_job(s) ==
  IF s.job # "none"
    THEN [(IF s.timer THEN Sig(s, "cancelled") ELSE s) EXCEPT !.timer = FALSE, !.job = "none"]
    ELSE s

auto_stop_rewinds(s) ==
  update_mode_buttons(cancel_job([s EXCEPT !.run = FALSE, !.idx = 0]))

\* _auto_stop
auto_stop(s) == update_mode_buttons(cancel_job([s EXCEPT !.run = FALSE]))

\* _init_arrays: sized by the live num_points variable
init_arrays(s) == [s EXCEPT !.rv = [i \in 1..num_points |-> None],
                            !.vv = [i \in 1..num_points |-> None],
                            !.fl = [i \in 1..num_points |-> FALSE],
                            !.idx = 0]

\* _build_main: point_combo.current(current_idx) raises on an empty value list;
\* otherwise ends with _update_mode_buttons, _refresh_rows, _update_big_box
build_main(s) ==
  IF Len(s.rv) = 0 THEN Raise(s)
  ELSE [s EXCEPT !.fl = refresh_rows(s.rv, s.vv)]

\* _update_big_box / _draw_big_box read r_values[current_idx]
update_big_box(s) == IF s.idx >= Len(s.rv) THEN Raise(s) ELSE s

write_reading_r_first(s, rd) ==
  LET rv2 == [s.rv EXCEPT ![s.idx + 1] = Some(rd.r)]
  IN [s EXCEPT !.rv = rv2, !.fl = refresh_rows(rv2, s.vv),
               !.wrote = s.idx, !.src = rd.src]

\* r_values[idx] = r; v_values[idx] = v; _refresh_rows(); _update_big_box()
write_reading(s, rd) ==
  LET rv2 == [s.rv EXCEPT ![s.idx + 1] = Some(rd.r)]
      vv2 == [s.vv EXCEPT ![s.idx + 1] = Some(rd.v)]
  IN [s EXCEPT !.rv = rv2, !.vv = vv2,
               !.fl = refresh_rows(rv2, vv2),
               !.wrote = s.idx, !.src = rd.src]

is_last_off_by_one(s) == s.idx >= num_points

\* the test that ends the walk: the live num_points, not the session's length
is_last(s) == s.idx >= num_points - 1

\* current_idx += 1; point_combo.current(current_idx) (TclError past the
\* combo's values); _scroll_row_into_view returns early when out of range
advance(s) ==
  LET t == [s EXCEPT !.idx = @ + 1]
  IN IF t.idx >= Len(t.rv) THEN Raise(t) ELSE t

\* _result_lines walks range(num_points.get()) over r_values
result_lines_raises(s) == num_points > Len(s.rv)

\* UI_2.py _export_snapshot: os.makedirs is outside the try, the write inside
export_snapshot_basic(s, ex) ==
  IF ex = "mkdir_fail" THEN Raise([s EXCEPT !.exported = "raised"])
  ELSE IF ex = "write_fail" \/ result_lines_raises(s)
    THEN Sig([s EXCEPT !.exported = "failed"], "export_failed")
    ELSE Sig([s EXCEPT !.exported = "written"], "export_saved")

\* UI_test.py _export_snapshot: the same, silent on success
export_snapshot_instr(s, ex) ==
  IF ex = "mkdir_fail" THEN Raise([s EXCEPT !.exported = "raised"])
  ELSE IF ex = "write_fail" \/ result_lines_raises(s)
    THEN Sig([s EXCEPT !.exported = "failed"], "export_failed")
    ELSE [s EXCEPT !.exported = "written"]

\* UI_2.py _measure_one, the else branch at the last point
finish_basic(s, from_auto, ex) ==
  IF from_auto
    THEN LET s1 == update_mode_buttons(cancel_job([s EXCEPT !.run = FALSE]))
             s2 == IF auto_export THEN export_snapshot_basic(s1, ex) ELSE s1
         IN IF s2.raised THEN s2 ELSE Sig(s2, "auto_finished")
    ELSE Sig(s, "done")

\* UI_test.py _measure_one, the else branch at the last cell
finish_instr(s, from_auto, ex) ==
  LET s1 == IF from_auto /\ auto_export THEN export_snapshot_instr(s, ex) ELSE s
  IN IF s1.raised THEN s1
     ELSE IF from_auto
       THEN Sig(update_mode_buttons(cancel_job([s1 EXCEPT !.run = FALSE])),
                "auto_finished")
       ELSE Sig(s1, "done")

\* UI_2.py _measure_one
measure_one_basic(s, from_auto, rd, ex) ==
  IF s.idx >= Len(s.rv) THEN Raise(s)
  ELSE LET s1 == write_reading(s, rd)
       IN IF ~is_last(s1) THEN advance(s1) ELSE finish_basic(s1, from_auto, ex)

\* _ensure_connected: called by UI_test.py _measure_one, defined nowhere in
\* the sources; modelled from the specification (refuse unless a session is open)
ensure_connected(conn) == conn = "open"

refuse_measure_no_stop(s, from_auto) == Sig(s, "not_connected")

\* UI_test.py _measure_one, the refusal: warn, stop Auto when called from Auto
refuse_measure(s, from_auto) ==
  LET s1 == Sig(s, "not_connected")
  IN IF from_auto THEN auto_stop(s1) ELSE s1

\* UI_test.py _measure_one, not the last cell
next_cell(s, from_auto) ==
  advance(IF ~from_auto /\ mode = "manual" THEN Sig(s, "next_cell") ELSE s)

\* UI_test.py _measure_one
measure_one_instr(s, from_auto, rd, ex) ==
  IF ~ensure_connected(ser) THEN refuse_measure(s, from_auto)
  ELSE IF s.idx >= Len(s.rv) THEN Raise(s)
  ELSE LET s1 == write_reading(s, rd)
       IN IF ~is_last(s1) THEN next_cell(s1, from_auto)
          ELSE finish_instr(s1, from_auto, ex)

measure_one(s, from_auto, rd, ex) ==
  IF variant = "basic" THEN measure_one_basic(s, from_auto, rd, ex)
  ELSE measure_one_instr(s, from_auto, rd, ex)

\* self._auto_job = self.after(interval, self._tick_auto); "second_tick" records
\* a callback scheduled while another one is still pending
schedule_tick(s) ==
  [(IF s.timer THEN Sig(s, "second_tick") ELSE s) EXCEPT !.job = "job", !.timer = TRUE]

tick_auto_always_reschedules(s, rd, ex) ==
  IF ~s.run THEN s
  ELSE LET m == measure_one(s, TRUE, rd, ex)
       IN IF m.raised THEN m ELSE schedule_tick(m)

\* _tick_auto
tick_auto(s, rd, ex) ==
  IF ~s.run THEN s
  ELSE LET m == measure_one(s, TRUE, rd, ex)
       IN IF m.raised THEN m
          ELSE IF m.run THEN schedule_tick(m) ELSE m

auto_start_no_guard(s, rd, ex) ==
  LET s1 == update_mode_buttons([s EXCEPT !.run = TRUE])
  IN IF s1.raised THEN s1 ELSE tick_auto(s1, rd, ex)

\* _auto_start
auto_start(s, rd, ex) ==
  IF s.run THEN s
  ELSE LET s1 == update_mode_buttons([s EXCEPT !.run = TRUE])
       IN IF s1.raised THEN s1 ELSE tick_auto(s1, rd, ex)

reset_results_keeps_cursor(s) ==
  LET s1 == IF s.run THEN auto_stop(s) ELSE s
      n == Len(s.rv)
  IN IF s1.raised THEN s1
     ELSE [s1 EXCEPT !.rv = [i \in 1..n |-> None], !.vv = [i \in 1..n |-> None],
                     !.fl = [i \in 1..n |-> FALSE]]

\* _reset_results (UI_2.py only)
reset_results(s) ==
  LET s1 == IF s.run THEN auto_stop(s) ELSE s
      n == Len(s.rv)
  IN IF s1.raised THEN s1
     ELSE [s1 EXCEPT !.rv = [i \in 1..n |-> None], !.vv = [i \in 1..n |-> None],
                     !.fl = [i \in 1..n |-> FALSE], !.idx = 0]

\* _reset
reset(s) ==
  LET s1 == auto_stop(s)
  IN IF s1.raised THEN s1 ELSE build_main(init_arrays(s1))

\* the try block of _apply_settings
settings_invalid ==
  \/ num_points <= 0
  \/ variant = "instr" /\ (r_tol < 0 \/ v_tol < 0)

apply_settings_no_stop(s) ==
  IF settings_invalid THEN Sig(s, "invalid")
  ELSE IF num_points # Len(s.rv)
    THEN LET s2 == build_main(init_arrays(s))
         IN IF s2.raised THEN s2 ELSE Sig(s2, "applied")
    ELSE LET s1 == update_big_box(
                     [s EXCEPT !.fl = refresh_rows(s.rv, s.vv)])
         IN IF s1.raised THEN s1 ELSE Sig(s1, "applied")

apply_settings_stale_flags(s) ==
  IF settings_invalid THEN Sig(s, "invalid")
  ELSE IF num_points # Len(s.rv)
    THEN LET s1 == auto_stop(s)
             s2 == IF s1.raised THEN s1 ELSE build_main(init_arrays(s1))
         IN IF s2.raised THEN s2 ELSE Sig(s2, "applied")
    ELSE LET s1 == update_big_box(s)
         IN IF s1.raised THEN s1 ELSE Sig(s1, "applied")

\* _apply_settings
apply_settings(s) ==
  IF settings_invalid THEN Sig(s, "invalid")
  ELSE IF num_points # Len(s.rv)
    THEN LET s1 == auto_stop(s)
             s2 == IF s1.raised THEN s1 ELSE build_main(init_arrays(s1))
         IN IF s2.raised THEN s2 ELSE Sig(s2, "applied")
    ELSE LET s1 == update_big_box(
                     [s EXCEPT !.fl = refresh_rows(s.rv, s.vv)])
         IN IF s1.raised THEN s1 ELSE Sig(s1, "applied")

\* _jump_to / _on_combo
jump_to(s, i) == [s EXCEPT !.idx = i]

\* ------------------------------------------------------------ actions
Observed(s, op) == [op |-> op, sig |-> s.sig, wrote |-> s.wrote, src |-> s.src,
                    exported |-> s.exported, raised |-> s.raised]

Commit(s, op) ==
  /\ r_values' = s.rv
  /\ v_values' = s.vv
  /\ flags' = s.fl
  /\ current_idx' = s.idx
  /\ auto_running' = s.run
  /\ auto_job' = s.job
  /\ timer' = s.timer
  /\ out' = Observed(s, op)
  /\ UNCHANGED evalVars

\* observation of the walk: a written index is appended while the session is
\* still as its last rebuild left it (no selection, no point-count edit)
Walked(s) ==
  /\ pure' = pure
  /\ trace' = IF pure /\ s.wrote >= 0 /\ Len(trace) <= MaxPoints
                THEN Append(trace, s.wrote) ELSE trace

Fresh(s) ==
  /\ pure' = (~s.raised /\ num_points = Len(s.rv))
  /\ trace' = <<>>

Tainted == pure' = FALSE /\ trace' = <<>>

ReadMeter(resp) ==
  IF variant = "basic" THEN read_meter_basic ELSE read_meter_instr(ser, resp)

\* the environment's choices that the handler can observe: the instrument
\* answers only on an open session, the export runs only with auto_export on
RespChoices == IF variant = "instr" /\ ser = "open" THEN Responses
               ELSE {[kind |-> "timeout", r |-> 0, v |-> 0]}
ExChoices == IF auto_export THEN ExportOutcomes ELSE {"ok"}

\* the button states _update_mode_buttons leaves: a function of the mode alone
btn_measure_enabled == ui_alive(Cur) /\ mode = "manual"
btn_auto_start_enabled == ui_alive(Cur) /\ mode = "auto"
btn_auto_stop_enabled == ui_alive(Cur) /\ mode = "auto"

\* the Measure (Manual) button, enabled in manual mode
Measure ==
  /\ btn_measure_enabled
  /\ \E resp \in RespChoices, ex \in {"ok"} : \E rd \in ReadMeter(resp) :
       LET s == measure_one(Cur, FALSE, rd, ex)
       IN Commit(s, "measure") /\ Walked(s)
  /\ UNCHANGED <<variant, num_points, mode, auto_export, limitVars, ser>>

\* the Start (Auto) button, enabled in auto mode
AutoStart ==
  /\ btn_auto_start_enabled
  /\ \E resp \in RespChoices, ex \in ExChoices : \E rd \in ReadMeter(resp) :
       LET s == auto_start(Cur, rd, ex)
       IN Commit(s, "auto_start") /\ Walked(s)
  /\ UNCHANGED <<variant, num_points, mode, auto_export, limitVars, ser>>

\* the Stop button, enabled in auto mode
AutoStop ==
  /\ btn_auto_stop_enabled
  /\ Commit(auto_stop(Cur), "auto_stop")
  /\ UNCHANGED <<variant, num_points, mode, auto_export, limitVars, ser, pure, trace>>

\* the scheduler fires the pending after() callback
Tick ==
  /\ timer
  /\ \E resp \in RespChoices, ex \in ExChoices : \E rd \in ReadMeter(resp) :
       LET s == tick_auto([Cur EXCEPT !.timer = FALSE], rd, ex)
       IN Commit(s, "tick") /\ Walked(s)
  /\ UNCHANGED <<variant, num_points, mode, auto_export, limitVars, ser>>

\* the Manual / Auto radio buttons
SetMode ==
  /\ ui_alive(Cur)
  /\ \E m \in {"manual", "auto"} : m # mode /\ mode' = m
  /\ Commit(update_mode_buttons(Cur), "other")
  /\ UNCHANGED <<variant, num_points, auto_export, limitVars, ser, pure, trace>>

\* the point combobox
OnCombo ==
  /\ ui_alive(Cur)
  /\ \E i \in 0..(Len(r_values) - 1) : Commit(update_big_box(jump_to(Cur, i)), "other")
  /\ Tainted
  /\ UNCHANGED <<variant, num_points, mode, auto_export, limitVars, ser>>

\* a click on a row label
JumpTo ==
  /\ ui_alive(Cur)
  /\ \E i \in 0..(Len(r_values) - 1) : Commit(update_big_box(jump_to(Cur, i)), "other")
  /\ Tainted
  /\ UNCHANGED <<variant, num_points, mode, auto_export, limitVars, ser>>

\* the Auto Export button
ToggleAutoExport ==
  /\ ui_alive(Cur)
  /\ auto_export' = ~auto_export
  /\ Commit(Cur, "other")
  /\ UNCHANGED <<variant, num_points, mode, limitVars, ser, pure, trace>>

\* typing in the Point Count spinbox: the IntVar follows at once
EditNumPoints ==
  /\ \E n \in PointCountInputs : n # num_points /\ num_points' = n
  /\ Commit(Cur, "other")
  /\ Tainted
  /\ UNCHANGED <<variant, mode, auto_export, limitVars, ser>>

\* typing in the limit entries: the DoubleVars follow at once
EditLimits ==
  /\ \/ /\ variant = "basic"
        /\ \E rl \in RLimitInputs, vl \in VLimitInputs :
             /\ <<rl, vl>> # <<RLimits, VLimits>>
             /\ r_min' = rl[1] /\ r_max' = rl[2] /\ v_min' = vl[1] /\ v_max' = vl[2]
        /\ UNCHANGED <<r_set, r_tol, v_set, v_tol>>
     \/ /\ variant = "instr"
        /\ \E rl \in RSetTolInputs, vl \in VSetTolInputs :
             /\ <<rl, vl>> # <<<<r_set, r_tol>>, <<v_set, v_tol>>>>
             /\ r_set' = rl[1] /\ r_tol' = rl[2] /\ v_set' = vl[1] /\ v_tol' = vl[2]
        /\ UNCHANGED <<r_min, r_max, v_min, v_max>>
  /\ Commit(Cur, "other")
  /\ UNCHANGED <<variant, num_points, mode, auto_export, ser, pure, trace>>

\* the Apply button of the Setting tab
ApplySettings ==
  /\ LET s == apply_settings(Cur)
     IN /\ Commit(s, "apply")
        /\ IF "applied" \in s.sig /\ Len(s.rv) # Len(r_values)
             THEN Fresh(s) ELSE UNCHANGED <<pure, trace>>
  /\ UNCHANGED <<variant, num_points, mode, auto_export, limitVars, ser>>

\* the Clear Results button (UI_2.py)
ResetResults ==
  /\ variant = "basic" /\ ui_alive(Cur)
  /\ LET s == reset_results(Cur) IN Commit(s, "clear") /\ Fresh(s)
  /\ UNCHANGED <<variant, num_points, mode, auto_export, limitVars, ser>>

\* the Reset All / Reset button
Reset ==
  /\ ui_alive(Cur)
  /\ LET s == reset(Cur) IN Commit(s, "reset") /\ Fresh(s)
  /\ UNCHANGED <<variant, num_points, mode, auto_export, limitVars, ser>>

\* the Connect button (enabled while no session is open); opening may fail
ConnectSerial ==
  /\ variant = "instr" /\ ser = "none"
  /\ \E ok \in BOOLEAN : ser' = IF ok THEN "open" ELSE "none"
  /\ Commit(Cur, "other")
  /\ UNCHANGED <<variant, num_points, mode, auto_export, limitVars, pure, trace>>

\* the Disconnect button
DisconnectSerial ==
  /\ variant = "instr" /\ ser = "open"
  /\ ser' = "none"
  /\ Commit(Cur, "other")
  /\ UNCHANGED <<variant, num_points, mode, auto_export, limitVars, pure, trace>>

\* the Test Read button: shows what _read_meter returns, stores nothing
TestRead ==
  /\ variant = "instr"
  /\ \E resp \in RespChoices : \E rd \in ReadMeter(resp) :
       Commit([Cur EXCEPT !.src = rd.src], "test_read")
  /\ UNCHANGED <<variant, num_points, mode, auto_export, limitVars, ser, pure, trace>>

\* ---------------------------------------------------------- specification
Init ==
  /\ variant \in {"basic", "instr"}
  /\ num_points \in 1..MaxPoints
  /\ r_values = [i \in 1..num_points |-> None]
  /\ v_values = [i \in 1..num_points |-> None]
  /\ flags = [i \in 1..num_points |-> FALSE]
  /\ current_idx = 0
  /\ mode = "manual"
  /\ auto_running = FALSE
  /\ auto_job = "none"
  /\ timer = FALSE
  /\ auto_export = FALSE
  /\ r_min = 0 /\ r_max = 4 /\ v_min = 0 /\ v_max = 4
  /\ r_set = 2000 /\ r_tol = 2000 /\ v_set = 2 /\ v_tol = 2
  /\ ser = "none"
  /\ out = Observed(Cur, "init")
  /\ pure = TRUE
  /\ trace = <<>>
  /\ passed_minmax = None
  /\ passed_settol = None
  /\ line = <<>>

Next ==
  \/ Measure \/ AutoStart \/ AutoStop \/ Tick \/ SetMode \/ OnCombo \/ JumpTo
  \/ ToggleAutoExport \/ EditNumPoints \/ EditLimits \/ ApplySettings
  \/ ResetResults \/ Reset \/ ConnectSerial \/ DisconnectSerial \/ TestRead

Spec == Init /\ [][Next]_vars

\* ------------------------------------------- evaluation specifications
EvalReadings == {None} \cup {Some(x) : x \in 0..EvalMax}

SessionOfOne(r, v) ==
  /\ num_points = 1
  /\ r_values = <<r>> /\ v_values = <<v>> /\ flags = <<FALSE>>
  /\ current_idx = 0 /\ mode = "manual" /\ auto_running = FALSE
  /\ auto_job = "none" /\ timer = FALSE /\ auto_export = FALSE /\ ser = "none"
  /\ out = Observed(Cur, "init")
  /\ pure = TRUE /\ trace = <<>>
  /\ passed_minmax = None /\ passed_settol = None /\ line = <<>>

\* one point with any reading pair, any limits of the variant (min > max and
\* tol < 0 included), not yet evaluated
EvalInit ==
  /\ \/ /\ variant = "basic"
        /\ r_min \in 0..EvalMax /\ r_max \in 0..EvalMax
        /\ v_min \in 0..EvalMax /\ v_max \in 0..EvalMax
        /\ r_set = 2 /\ r_tol = 1 /\ v_set = 2 /\ v_tol = 1
     \/ /\ variant = "instr"
        /\ r_set \in 0..EvalMax /\ r_tol \in -1..1
        /\ v_set \in 0..EvalMax /\ v_tol \in -1..1
        /\ r_min = 1 /\ r_max = 3 /\ v_min = 1 /\ v_max = 3
  /\ \E r \in EvalReadings, v \in EvalReadings : SessionOfOne(r, v)

\* one call of _refresh_rows
EvalRefresh ==
  /\ out.op = "init"
  /\ flags' = refresh_rows(r_values, v_values)
  /\ out' = [out EXCEPT !.op = "refresh"]
  /\ UNCHANGED <<variant, num_points, r_values, v_values, current_idx, auto_running,
                 auto_job, timer, mode, auto_export, limitVars, ser, pure, trace,
                 evalVars>>

\* an unattended Auto run: the user acts only while no loop is running, and
\* the Tk scheduler fires every pending after() callback
UserStep ==
  /\ ~auto_running
  /\ \/ Measure \/ AutoStart \/ AutoStop \/ SetMode \/ OnCombo \/ JumpTo
     \/ ToggleAutoExport \/ EditNumPoints \/ EditLimits \/ ApplySettings
     \/ ResetResults \/ Reset \/ ConnectSerial \/ DisconnectSerial \/ TestRead

SpecUnattended == Init /\ [][UserStep \/ Tick]_vars /\ WF_vars(Tick)

SpecEval == EvalInit /\ [][EvalRefresh]_vars

\* the same reading pair and the same bounds given to both programs: Set and
\* Tol (tol >= 0) to UI_test.py, min = set - tol and max = set + tol to UI_2.py
EquivInit ==
  /\ variant = "basic"
  /\ r_set \in 0..EvalMax /\ r_tol \in 0..1
  /\ v_set \in 0..EvalMax /\ v_tol \in 0..1
  /\ r_min = r_set - r_tol /\ r_max = r_set + r_tol
  /\ v_min = v_set - v_tol /\ v_max = v_set + v_tol
  /\ \E r \in EvalReadings, v \in EvalReadings : SessionOfOne(r, v)

EquivFrame == UNCHANGED <<variant, num_points, sessionVars, mode, auto_export,
                          limitVars, ser, out, pure, trace, line>>

\* the evaluation of UI_2.py on the point
EvalMinMax ==
  /\ passed_minmax = None
  /\ passed_minmax' = Some(is_pass_basic(r_values[1], v_values[1]))
  /\ UNCHANGED passed_settol
  /\ EquivFrame

\* the evaluation of UI_test.py on the point
EvalSetTol ==
  /\ passed_settol = None
  /\ passed_settol' = Some(is_pass_instr(r_values[1], v_values[1]))
  /\ UNCHANGED passed_minmax
  /\ EquivFrame

SpecEquiv == EquivInit /\ [][EvalMinMax \/ EvalSetTol]_vars

\* ----------------------------------------------------------------- claims
\* C1: from a fresh session, successive measureOne calls write the indices
\* 0, 1, ..., N-1 in that order; after N calls the cursor is N-1 and every
\* point is read; further calls stay on N-1 (the cursor never wraps to 0).
C1_WalkInOrder ==
  pure =>
    /\ \A i \in 1..Len(trace) : trace[i] = Min(i - 1, Len(r_values) - 1)
    /\ current_idx = Min(Len(trace), Len(r_values) - 1)
    /\ Len(trace) >= Len(r_values) => \A i \in 1..Len(r_values) : r_values[i] # None

C1_Witness ==
  /\ pure /\ Len(r_values) = MaxPoints /\ Len(trace) = MaxPoints
  /\ out.op = "measure" /\ out.wrote = MaxPoints - 1

\* C2: in every reachable state of a session that holds points, the cursor
\* is an index of the session: 0 <= current_idx <= N-1, N the length of the
\* reading arrays.
C2_CursorInRange ==
  Len(r_values) > 0 => (0 <= current_idx /\ current_idx <= Len(r_values) - 1)

\* C3: in every reachable state each passed flag equals the evaluation of the
\* point's readings against the limits now in effect (stated here for
\* well-formed limits, min <= max on both axes).
C3_FlagsCurrent ==
  (RLimits[1] <= RLimits[2] /\ VLimits[1] <= VLimits[2]) =>
  \A i \in 1..Len(flags) :
    flags[i] = (/\ r_values[i] # None /\ v_values[i] # None
                /\ RLimits[1] <= r_values[i][1] /\ r_values[i][1] <= RLimits[2]
                /\ VLimits[1] <= v_values[i][1] /\ v_values[i][1] <= VLimits[2])

\* C4: an evaluation marks the point passed iff both readings are present and
\* r_min <= r <= r_max and v_min <= v <= v_max, both ends inclusive.
C4_PassIffWithin ==
  LET rmin == IF variant = "basic" THEN r_min ELSE r_set - r_tol
      rmax == IF variant = "basic" THEN r_max ELSE r_set + r_tol
      vmin == IF variant = "basic" THEN v_min ELSE v_set - v_tol
      vmax == IF variant = "basic" THEN v_max ELSE v_set + v_tol
  IN out.op = "refresh" =>
       \A i \in 1..Len(flags) :
         flags[i] = (/\ r_values[i] # None /\ v_values[i] # None
                     /\ rmin <= r_values[i][1] /\ r_values[i][1] <= rmax
                     /\ vmin <= v_values[i][1] /\ v_values[i][1] <= vmax)

C4_Witness ==
  /\ out.op = "refresh" /\ variant = "basic" /\ flags[1]
  /\ r_min < r_max /\ r_values[1] = Some(r_max) /\ v_values[1] = Some(v_min)

\* C5: on the same readings, the Set +/- Tol evaluation and the Min/Max
\* evaluation with min = set - tol, max = set + tol give the same result.
C5_SetTolEquivMinMax ==
  (passed_minmax # None /\ passed_settol # None) => passed_minmax = passed_settol

C5_Witness ==
  /\ passed_minmax = Some(TRUE) /\ passed_settol = Some(TRUE)
  /\ r_tol > 0 /\ r_values[1] = Some(r_set + r_tol)

\* the step is a call of measureOne (manual, or from _auto_start / _tick_auto)
MeasureCalled ==
  \/ out'.op = "measure"
  \/ out'.op = "auto_start" /\ ~auto_running
  \/ out'.op = "tick" /\ auto_running

\* C6: instrument variant, measureOne with no open connection: readings,
\* flags and cursor are unchanged, the not-connected signal is raised, and a
\* call from the Auto loop leaves auto_running false with no tick pending.
C6_RefusedWhenNotConnected ==
  [][(variant = "instr" /\ ser = "none" /\ MeasureCalled) =>
       /\ r_values' = r_values /\ v_values' = v_values /\ flags' = flags
       /\ current_idx' = current_idx
       /\ out'.wrote = -1
       /\ "not_connected" \in out'.sig
       /\ out'.op # "measure" => (~auto_running' /\ auto_job' = "none" /\ ~timer')
       /\ out'.op = "measure" => auto_running' = auto_running]_vars

C6_Witness ==
  /\ variant = "instr" /\ ser = "none" /\ out.op = "tick"
  /\ "not_connected" \in out.sig /\ ~auto_running /\ ~timer
  /\ \E i \in 1..Len(r_values) : r_values[i] # None

\* C7: instrument variant, no read made while no session is open returns a
\* simulated reading.
C7_NoSimulatedWhenNotConnected ==
  (variant = "instr" /\ ser = "none") => out.src # "simulated"

\* C8: an Auto-driven measureOne that records the last index leaves the cursor
\* there, auto_running false, no tick scheduled, and issues the completion
\* notification; a tick measures only while Auto is running (stated here for
\* a point count that agrees with the session).
C8_AutoFinishAtLast ==
  [][/\ (/\ num_points = Len(r_values)
         /\ out'.op \in {"auto_start", "tick"}
         /\ out'.wrote = Len(r_values) - 1) =>
          /\ current_idx' = Len(r_values) - 1
          /\ ~auto_running' /\ ~timer'
          /\ "auto_finished" \in out'.sig
     /\ (out'.op = "tick" /\ ~auto_running) => out'.wrote = -1]_vars

\* C9: starting Auto on a one-point session with a reading available makes
\* exactly one measurement and ends with auto_running false and no tick
\* scheduled.
C9_SinglePointAuto ==
  [][(/\ out'.op = "auto_start" /\ ~auto_running
      /\ Len(r_values) = 1 /\ num_points = 1 /\ current_idx = 0
      /\ variant = "instr" => ser = "open") =>
       (out'.wrote = 0 /\ ~auto_running' /\ ~timer')]_vars

\* C10: a running Auto loop whose ticks all fire, with no user operation,
\* eventually halts (stated here for a point count that agrees with the
\* session, a cursor inside the session and, in the instrument variant, an
\* open connection).
C10_AutoEventuallyHalts ==
  (/\ auto_running /\ num_points = Len(r_values) /\ current_idx < Len(r_values)
   /\ variant = "instr" => ser = "open") ~> ~auto_running

\* the step is a handler that stops Auto: Stop, Reset, Clear Results while
\* running, or Apply with a changed point count
StopCalled ==
  \/ out'.op \in {"auto_stop", "reset"}
  \/ out'.op = "clear" /\ auto_running
  \/ out'.op = "apply" /\ ~settings_invalid /\ num_points # Len(r_values)

\* C11: a handler that stops Auto leaves auto_running false and takes the
\* pending tick off the scheduler, and a tick that fires while Auto is not
\* running measures nothing and schedules nothing; so no tick is ever pending
\* while Auto is not running.
C11_StoppedTickDoesNothing ==
  [][/\ StopCalled => (~auto_running' /\ ~timer' /\ auto_job' = "none")
     /\ (out'.op = "tick" /\ ~auto_running) =>
          /\ out'.wrote = -1 /\ ~timer' /\ ~auto_running'
          /\ r_values' = r_values /\ v_values' = v_values
          /\ flags' = flags /\ current_idx' = current_idx
     /\ timer' => auto_running']_vars

C11_Witness ==
  /\ out.op = "auto_stop" /\ "cancelled" \in out.sig
  /\ ~auto_running /\ ~timer
  /\ r_values[1] # None /\ r_values[Len(r_values)] = None

\* C12: Start (Auto) pressed while Auto is running is a no-op: no measurement,
\* no state change, no tick scheduled; and no handler ever schedules a tick
\* while another one is pending (at most one Auto tick is pending).
C12_StartWhileRunningNoOp ==
  [][/\ (out'.op = "auto_start" /\ auto_running) =>
          /\ out'.wrote = -1 /\ out'.sig = {} /\ ~out'.raised
          /\ UNCHANGED sessionVars
     /\ "second_tick" \notin out'.sig]_vars

C12_Witness ==
  /\ out.op = "auto_start" /\ out.wrote = -1 /\ out.sig = {} /\ ~out.raised
  /\ auto_running /\ timer /\ r_values[1] # None

\* C13: _auto_stop is idempotent: called in any reachable state it changes no
\* reading, flag or cursor and leaves auto_running false with no tick pending,
\* and a second call leaves what the first one left; the state after a Stop
\* is such a state.
C13_StopIdempotent ==
  /\ auto_stop(auto_stop(Cur)) = auto_stop(Cur)
  /\ auto_stop(Cur).rv = r_values /\ auto_stop(Cur).vv = v_values
  /\ auto_stop(Cur).fl = flags /\ auto_stop(Cur).idx = current_idx
  /\ ~auto_stop(Cur).run /\ ~auto_stop(Cur).timer /\ auto_stop(Cur).job = "none"
  /\ out.op = "auto_stop" =>
       /\ ~auto_running /\ ~timer /\ auto_job = "none"
       /\ auto_stop(Cur).sig = {} /\ ~auto_stop(Cur).raised

C13_Witness ==
  /\ out.op = "auto_stop" /\ "cancelled" \in out.sig
  /\ current_idx = 1 /\ flags[1] /\ ~auto_running /\ ~timer /\ auto_job = "none"

\* C14: the automatic export is triggered exactly at the completion of an Auto
\* run: only by an Auto-driven measurement (never a manual one), only with the
\* auto-export flag on, only when that measurement wrote the last point of
\* the session, always then, and with no tick left pending that could trigger
\* it again in the same run.
C14_AutoExportOnce ==
  [][/\ out'.exported # "no" =>
          /\ out'.op \in {"auto_start", "tick"}
          /\ auto_export
          /\ out'.wrote = Len(r_values) - 1
          /\ ~timer'
     /\ (/\ out'.op \in {"auto_start", "tick"} /\ auto_export
         /\ out'.wrote = Len(r_values) - 1) => out'.exported # "no"]_vars

\* C15: whenever a handler has issued a measurement-complete notification
\* (Manual "done" or Auto "finished") or has triggered the automatic export,
\* every point of the session holds a reading (stated here for a point count
\* that agrees with the session, so that the case is a cursor moved by
\* selection).
C15_CompleteMeansAllRead ==
  (/\ num_points = Len(r_values)
   /\ \/ "done" \in out.sig
      \/ "auto_finished" \in out.sig
      \/ out.exported # "no") =>
    \A i \in 1..Len(r_values) : r_values[i] # None /\ v_values[i] # None

\* C16: after Clear Results every point has no resistance, no voltage and
\* passed false, the cursor is 0 and Auto is not running with no tick pending;
\* the number of points, the point count, the limits, the mode and the
\* auto-export flag are unchanged; and clearing once more would leave the
\* session as the first clearing left it.
C16_ClearResults ==
  [][out'.op = "clear" =>
       /\ Len(r_values') = Len(r_values) /\ Len(v_values') = Len(r_values)
       /\ Len(flags') = Len(r_values)
       /\ \A i \in 1..Len(r_values') :
            r_values'[i] = None /\ v_values'[i] = None /\ flags'[i] = FALSE
       /\ current_idx' = 0
       /\ ~auto_running' /\ ~timer'
       /\ UNCHANGED <<num_points, limitVars, mode, auto_export>>
       /\ reset_results(Cur)'.rv = r_values' /\ reset_results(Cur)'.vv = v_values'
       /\ reset_results(Cur)'.fl = flags' /\ reset_results(Cur)'.idx = current_idx'
       /\ reset_results(Cur)'.run = auto_running'
       /\ reset_results(Cur)'.timer = timer'
       /\ reset_results(Cur)'.job = auto_job' /\ ~reset_results(Cur)'.raised]_vars

C16_Witness ==
  /\ out.op = "clear" /\ "cancelled" \in out.sig /\ Len(r_values) = MaxPoints
  /\ \A i \in 1..Len(r_values) : r_values[i] = None
  /\ current_idx = 0 /\ auto_export /\ mode = "auto"

\* the step is a handler that rebuilds the session: Reset All, or Apply with
\* an accepted configuration whose point count differs from the session's
RebuildCalled ==
  \/ out'.op = "reset"
  \/ out'.op = "apply" /\ ~settings_invalid /\ num_points # Len(r_values)

\* C17: after Reset All, or after Apply with a changed point count, the
\* session holds exactly point_count points, each with no reading and passed
\* false, and the cursor is 0.
C17_RebuildDiscardsAll ==
  [][RebuildCalled =>
       /\ Len(r_values') = num_points /\ Len(v_values') = num_points
       /\ Len(flags') = num_points
       /\ \A i \in 1..Len(r_values') :
            r_values'[i] = None /\ v_values'[i] = None /\ flags'[i] = FALSE
       /\ current_idx' = 0]_vars

\* C18: Apply with an accepted configuration whose point count differs from
\* the session's, pressed while Auto is running, leaves auto_running false,
\* the pending tick cancelled and a rebuilt, empty session: no tick is left
\* that could measure into it.
C18_ApplyStopsAuto ==
  [][(/\ out'.op = "apply" /\ ~settings_invalid
      /\ num_points # Len(r_values) /\ auto_running) =>
       /\ ~auto_running' /\ ~timer' /\ auto_job' = "none"
       /\ out'.wrote = -1
       /\ Len(r_values') = num_points
       /\ \A i \in 1..Len(r_values') : r_values'[i] = None]_vars

C18_Witness ==
  /\ out.op = "apply" /\ {"applied", "cancelled"} \subseteq out.sig
  /\ ~auto_running /\ ~timer /\ Len(r_values) = num_points
  /\ \A i \in 1..Len(r_values) : r_values[i] = None

\* C19: Apply with min > max on either limit or with a point count <= 0 is
\* rejected with an error and changes nothing of the session.
C19_InvalidConfigRejected ==
  [][(/\ out'.op = "apply"
      /\ \/ num_points <= 0
         \/ RLimits[1] > RLimits[2]
         \/ VLimits[1] > VLimits[2]) =>
       /\ "invalid" \in out'.sig /\ "applied" \notin out'.sig
       /\ UNCHANGED sessionVars]_vars

\* C20: when the automatic export at Auto completion fails (folder not
\* creatable, or file not writable) the failure is reported, no exception
\* leaves the handler, the cursor stays, and the Auto loop ends with
\* auto_running false and no tick pending.
C20_ExportFailureContained ==
  [][out'.exported \in {"failed", "raised"} =>
       /\ "export_failed" \in out'.sig /\ ~out'.raised
       /\ current_idx' = current_idx
       /\ ~auto_running' /\ ~timer']_vars

\* ------------------------------------------------------ report rendering
\* _result_lines, one row: N/A when a reading is missing, else by the flag
report_row(r, v, f) ==
  IF r = None \/ v = None THEN "N/A" ELSE IF f THEN "PASS" ELSE "NOT PASS"

\* UI_2.py _result_lines: the Overall label, over the whole arrays
overall_label ==
  IF /\ \A i \in 1..Len(r_values) : r_values[i] # None
     /\ \A i \in 1..Len(flags) : flags[i]
    THEN "PASS" ELSE "NOT PASS"

\* _result_lines: rows for range(num_points.get()) (IndexError past the
\* arrays); UI_2.py appends the Overall line, UI_test.py returns after the rows
result_lines ==
  IF num_points > Len(r_values)
    THEN [raised |-> TRUE, rows |-> <<>>, overall |-> None]
    ELSE [raised |-> FALSE,
          rows |-> [i \in 1..num_points |->
                      report_row(r_values[i], v_values[i], flags[i])],
          overall |-> IF variant = "basic" THEN Some(overall_label) ELSE None]

\* a point as a session can hold it: nothing, or a pair of readings with the
\* flag of its last evaluation
ReportPoints == {[r |-> None, v |-> None, f |-> FALSE]}
                \cup {[r |-> Some(a), v |-> Some(b), f |-> c] :
                        a \in RGrid, b \in VGrid, c \in BOOLEAN}

\* a session of 1..MaxPoints such points and a point count, applied or not
ReportInit ==
  /\ variant \in {"basic", "instr"}
  /\ num_points \in PointCountInputs
  /\ \E n \in 1..MaxPoints : \E pts \in [1..n -> ReportPoints] :
       /\ r_values = [i \in 1..n |-> pts[i].r]
       /\ v_values = [i \in 1..n |-> pts[i].v]
       /\ flags = [i \in 1..n |-> pts[i].f]
  /\ current_idx = 0 /\ mode = "manual" /\ auto_running = FALSE
  /\ auto_job = "none" /\ timer = FALSE /\ auto_export = FALSE /\ ser = "none"
  /\ r_min = 0 /\ r_max = 4 /\ v_min = 0 /\ v_max = 4
  /\ r_set = 2 /\ r_tol = 2 /\ v_set = 2 /\ v_tol = 2
  /\ out = Observed(Cur, "init")
  /\ pure = TRUE /\ trace = <<>>
  /\ passed_minmax = None /\ passed_settol = None /\ line = <<>>

\* one call of _result_lines (by _manual_export or _export_snapshot)
RenderReport ==
  /\ out.op = "init"
  /\ out' = [op |-> "report", report |-> result_lines]
  /\ UNCHANGED <<variant, num_points, sessionVars, mode, auto_export, limitVars,
                 ser, pure, trace, evalVars>>

SpecReport == ReportInit /\ [][RenderReport]_vars

\* C21: the narrative report of a session (point count equal to the number
\* of points held) has one row per point in index order, N/A when either
\* reading is absent, else PASS or NOT PASS by the passed flag, and ends with
\* an Overall line that is PASS iff every point has a resistance value and
\* every passed flag is true.
C21_ReportRowsAndOverall ==
  (out.op = "report" /\ num_points = Len(r_values)) =>
    /\ ~out.report.raised
    /\ Len(out.report.rows) = Len(r_values)
    /\ \A i \in 1..Len(r_values) :
         out.report.rows[i] =
           IF r_values[i] = None \/ v_values[i] = None THEN "N/A"
           ELSE IF flags[i] THEN "PASS" ELSE "NOT PASS"
    /\ out.report.overall # None
    /\ (out.report.overall = Some("PASS")) <=>
         \A i \in 1..Len(r_values) : r_values[i] # None /\ flags[i]

\* ------------------------------------------------------ response parsing
\* a comma-separated field after strip(): its text, what float() makes of it
\* and what int() makes of it once every '+' is removed (None: ValueError)
Fields ==
  {[text |-> "+2.0E+00", flt |-> Some(2), int |-> None],
   [text |-> "+5.0E+00", flt |-> Some(5), int |-> None],
   [text |-> "+0", flt |-> Some(0), int |-> Some(0)],
   [text |-> "1", flt |-> Some(1), int |-> Some(1)],
   [text |-> "1+2", flt |-> None, int |-> Some(12)],
   [text |-> "abc", flt |-> None, int |-> None],
   [text |-> "", flt |-> None, int |-> None]}

\* s.split(","): at least one field, the empty line being one empty field
Lines == UNION {[1..n -> Fields] : n \in 1..MaxFields}

parse_meter_line_status_raises(parts) ==
  IF Len(parts) < 2 THEN [err |-> TRUE, r |-> None, v |-> None, status |-> None]
  ELSE IF parts[1].flt = None \/ parts[2].flt = None
    THEN [err |-> TRUE, r |-> None, v |-> None, status |-> None]
  ELSE IF Len(parts) >= 3 /\ parts[3].int = None
    THEN [err |-> TRUE, r |-> None, v |-> None, status |-> None]
  ELSE [err |-> FALSE, r |-> parts[1].flt, v |-> parts[2].flt,
        status |-> IF Len(parts) >= 3 THEN parts[3].int ELSE None]

\* _parse_meter_line: ValueError on fewer than two fields or when float()
\* rejects one of the first two; the status field is optional and its
\* conversion error is swallowed
parse_meter_line(parts) ==
  IF Len(parts) < 2 THEN [err |-> TRUE, r |-> None, v |-> None, status |-> None]
  ELSE IF parts[1].flt = None \/ parts[2].flt = None
    THEN [err |-> TRUE, r |-> None, v |-> None, status |-> None]
  ELSE [err |-> FALSE, r |-> parts[1].flt, v |-> parts[2].flt,
        status |-> IF Len(parts) >= 3 THEN parts[3].int ELSE None]

\* UI_test.py with one response line read from the instrument
ParseInit ==
  /\ variant = "instr"
  /\ line \in Lines
  /\ num_points = 1
  /\ r_values = <<None>> /\ v_values = <<None>> /\ flags = <<FALSE>>
  /\ current_idx = 0 /\ mode = "manual" /\ auto_running = FALSE
  /\ auto_job = "none" /\ timer = FALSE /\ auto_export = FALSE /\ ser = "open"
  /\ r_min = 0 /\ r_max = 4 /\ v_min = 0 /\ v_max = 4
  /\ r_set = 2000 /\ r_tol = 2000 /\ v_set = 2 /\ v_tol = 2
  /\ out = Observed(Cur, "init")
  /\ pure = TRUE /\ trace = <<>>
  /\ passed_minmax = None /\ passed_settol = None

\* one call of _parse_meter_line
ParseLine ==
  /\ out.op = "init"
  /\ out' = [op |-> "parsed", result |-> parse_meter_line(line)]
  /\ UNCHANGED <<variant, num_points, sessionVars, mode, auto_export, limitVars,
                 ser, pure, trace, evalVars>>

SpecParse == ParseInit /\ [][ParseLine]_vars

\* C22: parsing a response line fails (malformed response) when it has fewer
\* than two comma-separated fields or one of the first two is not numeric;
\* otherwise it yields the first field as resistance and the second as
\* voltage, with the status absent when there is no third field or the third
\* field is not an integer once '+' is removed (never an error).
C22_ParseMeterLine ==
  out.op = "parsed" =>
    IF Len(line) < 2 \/ line[1].flt = None \/ line[2].flt = None
      THEN out.result.err
      ELSE /\ ~out.result.err
           /\ out.result.r = line[1].flt /\ out.result.v = line[2].flt
           /\ Len(line) = 2 => out.result.status = None
           /\ (Len(line) >= 3 /\ line[3].int = None) => out.result.status = None
           /\ (Len(line) >= 3 /\ line[3].int # None) =>
                out.result.status = line[3].int

C22_Witness ==
  /\ out.op = "parsed" /\ Len(line) = 3 /\ line[3].text = "abc"
  /\ ~out.result.err /\ out.result.status = None
  /\ out.result.r = Some(5) /\ out.result.v = Some(2)

\* C23: switching the mode between Manual and Auto changes only which
\* operations are enabled: the readings, the passed flags, the cursor,
\* auto_running and the pending tick are as before the switch, and the
\* handler raises nothing.
C23_ModeSwitchFrame ==
  [][mode' # mode =>
       /\ UNCHANGED sessionVars
       /\ UNCHANGED <<num_points, auto_export, limitVars, ser>>
       /\ ~out'.raised /\ out'.wrote = -1 /\ out'.sig = {}]_vars

C23_Witness ==
  /\ mode = "manual" /\ auto_running /\ timer /\ auto_job = "job"
  /\ current_idx = 1 /\ r_values[1] # None /\ flags[1]

\* ------------------------------------------------- the simulated reader
\* limits typed into the entries, as (min, max) and as (set, tol): a span of
\* 6, of 4, of 0 and an inverted one
SimLimitInputs == {<<1, 7>>, <<2, 6>>, <<4, 4>>, <<7, 1>>}
SimSetTolInputs == {<<4, 3>>, <<4, 2>>, <<4, 0>>, <<4, -3>>}
SimGrid == 0..SimMax

\* one point not yet read, any of the limits above in the entries
SimInit ==
  /\ variant \in {"basic", "instr"}
  /\ \E rl \in SimLimitInputs, vl \in SimLimitInputs :
       r_min = rl[1] /\ r_max = rl[2] /\ v_min = vl[1] /\ v_max = vl[2]
  /\ \E rl \in SimSetTolInputs, vl \in SimSetTolInputs :
       r_set = rl[1] /\ r_tol = rl[2] /\ v_set = vl[1] /\ v_tol = vl[2]
  /\ variant = "basic" => (r_set = 4 /\ r_tol = 3 /\ v_set = 4 /\ v_tol = 3)
  /\ variant = "instr" => (r_min = 1 /\ r_max = 7 /\ v_min = 1 /\ v_max = 7)
  /\ SessionOfOne(None, None)

\* _read_meter on its simulated path, stored by _measure_one
SimRead ==
  /\ out.op = "init"
  /\ \E p \in sim_readings(RLimits, VLimits, SimGrid, SimGrid) :
       Commit(write_reading(Cur, [src |-> "simulated", r |-> p[1], v |-> p[2]]),
              "simread")
  /\ UNCHANGED <<variant, num_points, mode, auto_export, limitVars, ser, pure, trace>>

SpecSim == SimInit /\ [][SimRead]_vars

\* |x - center| <= k/10 * |half-span|, doubled to stay in the integers
SimWithin(x, lim, k) == 10 * Abs(2 * x - (lim[1] + lim[2])) <= k * Abs(lim[2] - lim[1])
SimInside(x, lim) == lim[1] <= x /\ x <= lim[2]

\* C24: a simulated reading is drawn for both axes from the same branch:
\* either within center +/- 0.6 half-span, and then it is inside the limits
\* on both axes and the point passes, or at a distance between 0.7 and 1.6
\* half-spans from the center on each axis; never further than 1.6 half-spans.
C24_SimulatedReading ==
  out.op = "simread" =>
    LET r == r_values[1][1]
        v == v_values[1][1]
    IN /\ SimWithin(r, RLimits, 16) /\ SimWithin(v, VLimits, 16)
       /\ \/ /\ SimWithin(r, RLimits, 6) /\ SimWithin(v, VLimits, 6)
             /\ SimInside(r, RLimits) /\ SimInside(v, VLimits) /\ flags[1]
          \/ /\ 10 * Abs(2 * r - (RLimits[1] + RLimits[2]))
                  >= 7 * Abs(RLimits[2] - RLimits[1])
             /\ 10 * Abs(2 * v - (VLimits[1] + VLimits[2]))
                  >= 7 * Abs(VLimits[2] - VLimits[1])

\* C25: in the instrument variant a measureOne with an open connection always
\* records a reading at the cursor, the instrument's or, on a timeout or a
\* malformed response, a simulated one; the read never fails, and a tick of
\* the Auto loop leaves auto_running false only by completing the walk.
C25_ReadNeverFails ==
  [][(variant = "instr" /\ ser = "open" /\ MeasureCalled) =>
       /\ out'.wrote = current_idx
       /\ out'.src \in {"instrument", "simulated"}
       /\ Len(r_values') = Len(r_values)
       /\ r_values'[current_idx + 1] # None /\ v_values'[current_idx + 1] # None
       /\ (auto_running' = FALSE /\ out'.op # "measure") =>
            "auto_finished" \in out'.sig]_vars

\* C26: readings are recorded in pairs: in every reachable state and for
\* every point the resistance is absent iff the voltage is absent, so no
\* point is half read and no report row is N/A for a point that has a
\* resistance value.
C26_ReadingsInPairs ==
  /\ Len(r_values) = Len(v_values) /\ Len(flags) = Len(r_values)
  /\ \A i \in 1..Len(r_values) :
       /\ (r_values[i] = None) <=> (v_values[i] = None)
       /\ report_row(r_values[i], v_values[i], flags[i]) = "N/A" => r_values[i] = None

C26_Witness ==
  /\ out.op = "measure" /\ out.wrote = 0 /\ Len(r_values) = 2
  /\ r_values[1] # None /\ v_values[1] # None
  /\ r_values[2] = None /\ v_values[2] = None

\* C27: a successful measureOne (not refused, nothing raised) stores the
\* reading pair at the cursor it was called with and leaves the readings of
\* every other point unchanged; the cursor afterwards is the same index if
\* that was the last point of the session and exactly one higher otherwise.
C27_MeasureWritesOnePoint ==
  [][(MeasureCalled /\ ~out'.raised /\ out'.wrote >= 0) =>
       /\ out'.wrote = current_idx
       /\ Len(r_values') = Len(r_values) /\ Len(v_values') = Len(v_values)
       /\ r_values'[current_idx + 1] # None /\ v_values'[current_idx + 1] # None
       /\ \A i \in 1..Len(r_values) : i # current_idx + 1 =>
            (r_values'[i] = r_values[i] /\ v_values'[i] = v_values[i])
       /\ current_idx' = IF current_idx = Len(r_values) - 1 THEN current_idx
                         ELSE current_idx + 1]_vars

\* C28: in every state between two handlers, auto_running false implies
\* that no Auto tick is pending and the stored timer handle is cleared:
\* after Stop, after the completion at the last point, after a refused or
\* failed measurement, after a reset and after a failed export.
C28_IdleMeansNoTick ==
  ~auto_running => (~timer /\ auto_job = "none")

C28_Witness ==
  /\ out.op = "tick" /\ "auto_finished" \in out.sig
  /\ ~auto_running /\ ~timer /\ auto_job = "none"
  /\ out.exported = "failed"

\* C29: whenever the Auto loop is running the Stop button is enabled and the
\* manual Measure button is disabled, whatever mode switches happened, and
\* the handler that ran last was not a manual measureOne.
C29_RunningLocksManual ==
  auto_running =>
    (btn_auto_stop_enabled /\ ~btn_measure_enabled /\ out.op # "measure")

\* C30: Apply with valid settings (point count > 0, min <= max, tol >= 0)
\* and a point count equal to the number of points held keeps every reading
\* and the cursor, leaves a running Auto loop running with its pending tick,
\* and recomputes every passed flag against the limits now in the entries.
C30_ApplyKeepsSession ==
  [][(/\ out'.op = "apply" /\ ~settings_invalid
      /\ num_points = Len(r_values)
      /\ RLimits[1] <= RLimits[2] /\ VLimits[1] <= VLimits[2]) =>
       /\ r_values' = r_values /\ v_values' = v_values
       /\ current_idx' = current_idx
       /\ auto_running' = auto_running /\ timer' = timer /\ auto_job' = auto_job
       /\ Len(flags') = Len(r_values)
       /\ \A i \in 1..Len(r_values) :
            flags'[i] <=> /\ r_values[i] # None /\ v_values[i] # None
                          /\ RLimits[1] <= r_values[i][1] /\ r_values[i][1] <= RLimits[2]
                          /\ VLimits[1] <= v_values[i][1] /\ v_values[i][1] <= VLimits[2]]_vars

C30_Witness ==
  /\ out.op = "apply" /\ "applied" \in out.sig
  /\ variant = "basic" /\ num_points = 2 /\ Len(r_values) = 2
  /\ auto_running /\ timer /\ current_idx = 1
  /\ r_values[1] = Some(5) /\ r_min = 0 /\ r_max = 4 /\ v_min = 0 /\ v_max = 4
  /\ ~flags[1]

====
